---- MODULE Spec2Model ----
(***************************************************************************)
(* A model of the ApoloTrading decision pipeline: the synchronous event    *)
(* bus (src/infrastructure/event_bus.py), the strategy evaluators, the     *)
(* risk gate (src/risk/manager.py), the paper execution stage and the      *)
(* portfolio ledger, together with the account-state store they share.     *)
(*                                                                         *)
(* EventBus.publish is a recursive Python call.  It is modelled by an      *)
(* explicit call stack: a "pub" frame is one activation of publish (its    *)
(* for-loop position), a "hdl" frame is one handler activation (what it    *)
(* still has to publish and how it ends).  Money is in whole dollars and   *)
(* drawdown_pct in units of 1e-5 (hwm = 100000, so one dollar of equity).  *)
(***************************************************************************)
EXTENDS Integers, Sequences, FiniteSets, TLC

VARIABLES
    subs,       \* EventBus._subscribers: kind -> sequence of handlers
    stack,      \* the Python call stack of publish / handler activations
    log,        \* what the latest top-level publish has done so far
    nextId,     \* identity of the next Event object created
    store,      \* the account_state table, oldest row first
    trades,     \* the trades table
    updates,    \* the pnl_change arguments update_account_state was called with
    mode,       \* ExecutionEngine.mode, fixed at construction
    memo        \* one decision of the gate kept for comparison with later ones

vars == <<subs, stack, log, nextId, store, trades, updates, mode, memo>>

----------------------------------------------------------------------------
(* Bounds of the model *)

MaxSubs == 3        \* subscriptions registered on a bus under test
MaxDepth == 8       \* frames on the call stack
MaxRows == 2        \* rows of account_state
MaxUpdates == 3     \* calls of update_account_state

----------------------------------------------------------------------------
(* Event kinds: EventType *)

Kinds == {"MARKET_DATA", "SIGNAL", "ORDER_REQUEST", "ORDER_FILL",
          "RISK_CHECK", "SYSTEM_STATUS", "ERROR"}

NoSubscribers == [k \in Kinds |-> <<>>]

\* Subscribers a client of the bus registers: a callable that returns, one
\* that raises, and ones that publish a SIGNAL event before doing so.
Probes == {"probe_ok", "probe_raise", "probe_publish", "probe_publish_raise"}

\* The kinds the bus is exercised with when it is tested on its own.
BusKinds == {"MARKET_DATA", "SIGNAL", "ERROR"}

NumSubs(s) == Len(s["MARKET_DATA"]) + Len(s["SIGNAL"]) + Len(s["ORDER_REQUEST"])
              + Len(s["ORDER_FILL"]) + Len(s["RISK_CHECK"])
              + Len(s["SYSTEM_STATUS"]) + Len(s["ERROR"])

Last(s) == s[Len(s)]
Front(s) == SubSeq(s, 1, Len(s) - 1)

----------------------------------------------------------------------------
(* Events and frames *)

\* Event.__init__: a fresh object; parent/pidx/cause record who created it
\* (cause "caller": a top-level publish, "handler": published by the handler
\* at position pidx of event parent, "bus": the except clause of publish).
Event(id, kind, data, parent, pidx, cause) ==
    [id |-> id, kind |-> kind, data |-> data,
     parent |-> parent, pidx |-> pidx, cause |-> cause]

\* One activation of EventBus.publish(ev), about to run handler number i.
PubFrame(ev) == [t |-> "pub", ev |-> ev, i |-> 1]

\* One activation of a handler: rest is what it still publishes, end how it
\* finishes ("return" or "raise"), msg the text of the exception.
HdlFrame(ev, i, h, body) ==
    [t |-> "hdl", ev |-> ev, i |-> i, h |-> h,
     rest |-> body.pubs, end |-> body.end, msg |-> body.msg]

\* self._subscribers[event.type] (event_bus.py:57-58)
OtherKindHandlers(s, ev) ==
    IF ev.kind = "MARKET_DATA" THEN s["SIGNAL"] ELSE s["MARKET_DATA"]
ReversedHandlers(s, ev) ==
    [k \in 1..Len(s[ev.kind]) |-> s[ev.kind][Len(s[ev.kind]) + 1 - k]]
Handlers(s, ev) == s[ev.kind]

\* the for-loop moves on to the next handler (event_bus.py:58)
SameIndex(i) == i
NextIndex(i) == i + 1

\* a call of publish runs at once, on top of the caller (event_bus.py:51-60)
DeferredPublish(stk, ev) ==
    IF Len(stk) < 2 THEN Append(stk, PubFrame(ev))
    ELSE SubSeq(stk, 1, Len(stk) - 2) \o <<PubFrame(ev)>>
            \o SubSeq(stk, Len(stk) - 1, Len(stk))
EnqueuePublish(stk, ev) == <<PubFrame(ev)>> \o stk
CallPublish(stk, ev) == Append(stk, PubFrame(ev))

\* "if event.type != EventType.ERROR" (event_bus.py:66)
NoErrorGuard(ev) == TRUE
ErrorGuard(ev) == ev.kind # "ERROR"

\* the handler raised: the except clause of publish (event_bus.py:61-67).
\* stk is the stack with the handler's frame gone; its top is the publish
\* that called the handler, which goes on with its loop.
AbortOnRaise(stk, ev, i, h, msg, id) == Front(stk)
SwallowOnRaise(stk, ev, i, h, msg, id) == stk
ExceptClause(stk, ev, i, h, msg, id) ==
    IF ErrorGuard(ev)
    THEN CallPublish(stk, Event(id, "ERROR", [message |-> msg, origin |-> h],
                                ev.id, i, "bus"))
    ELSE stk

----------------------------------------------------------------------------
(* Handlers *)

\* A subscriber registered by a client of the bus.
ProbeBody(h, ev) ==
    [pubs |-> IF h \in {"probe_publish", "probe_publish_raise"}
              THEN <<[kind |-> "SIGNAL", data |-> [probe |-> h]]>>
              ELSE <<>>,
     end |-> IF h \in {"probe_raise", "probe_publish_raise"}
             THEN "raise" ELSE "return",
     msg |-> IF h \in {"probe_raise", "probe_publish_raise"}
             THEN "boom" ELSE "",
     outcome |-> "probe",
     store |-> store, trades |-> trades]

----------------------------------------------------------------------------
(* Python values *)

None == "None"

\* dict.get(key, default)
Get(d, key, default) == IF key \in DOMAIN d THEN d[key] ELSE default

\* an Optional value: <<>> for None, <<v>> for v
Nothing == <<>>
Some(v) == <<v>>

\* no AccountState object
NoState == [none |-> TRUE]

\* what a handler activation does: the events it publishes, how it ends,
\* and the tables as it leaves them.
Returns(pubs, outcome) ==
    [pubs |-> pubs, end |-> "return", msg |-> "",
     outcome |-> outcome, store |-> store, trades |-> trades]
RaisesError(msg) ==
    [pubs |-> <<>>, end |-> "raise", msg |-> msg,
     outcome |-> "raise", store |-> store, trades |-> trades]

----------------------------------------------------------------------------
(* The account_state table *)

\* the mapped columns of AccountState (id, user_id and timestamp left out:
\* rows are kept in the order of their timestamps, the newest last)
AccountStateColumns ==
    {"equity", "balance", "risk_state", "drawdown_pct", "daily_trades_count"}

\* the constructor SQLAlchemy's declarative base gives AccountState: a
\* keyword that is no attribute of the class is a TypeError.  The object
\* holds the keywords given; a column not given reads as None.
NewAccountState(kw) ==
    IF DOMAIN kw \subseteq AccountStateColumns
    THEN [ok |-> TRUE, obj |-> kw]
    ELSE [ok |-> FALSE, obj |-> NoState]

\* getattr(state, name) succeeds: the name is a column of the class, or was
\* set on the object; anything else is an AttributeError
HasAttr(state, name) == name \in (DOMAIN state \cup AccountStateColumns)

\* "state.<column> is None"
IsNone(state, name) == name \notin DOMAIN state

\* the column thresholds every writer of a row applies
\* (portfolio.py:61-63, manager.py:127-129, seed_data.py:62-64)
RiskStateFor(dd) ==
    IF dd > 8000 THEN "HALT" ELSE IF dd > 4000 THEN "DEFENSIVE" ELSE "NORMAL"

Hwm == 100000

\* "(hwm - equity) / hwm if equity < hwm else 0.0"
ClampedDrawdown(equity) == IF equity < Hwm THEN Hwm - equity ELSE 0

Row(equity, state, dd, count) ==
    [equity |-> equity, balance |-> equity, risk_state |-> state,
     drawdown_pct |-> dd, daily_trades_count |-> count]

\* the end-of-day rows seed_data.py writes
SeedRow(equity, count) ==
    Row(equity, RiskStateFor(ClampedDrawdown(equity)), ClampedDrawdown(equity), count)

\* query(AccountState).order_by(timestamp.desc()).first()
LatestRow(st) == IF st = <<>> THEN NoState ELSE Last(st)

----------------------------------------------------------------------------
(* Strategy evaluators *)

\* BullPutSpreadStrategy.evaluate: prices and strikes in cents, price given
\* in dollars, risk_per_unit in dollars
BullPutAboveThirtyEvaluate(data) ==
    IF Get(data, "iv_rank", 0) <= 30 THEN Nothing
    ELSE Some(
         [strategy |-> "BULL_PUT_SPREAD",
          symbol |-> Get(data, "symbol", None),
          side |-> "SELL",
          legs |-> <<[side |-> "SELL", type |-> "PUT", strike |-> data.price * 95],
                     [side |-> "BUY", type |-> "PUT", strike |-> data.price * 90]>>,
          limit_price |-> 150,
          risk_per_unit |-> (data.price * 95 - data.price * 90)])
BullPutEvaluate(data) ==
    IF Get(data, "iv_rank", 0) < 30 THEN Nothing
    ELSE Some(
         [strategy |-> "BULL_PUT_SPREAD",
          symbol |-> Get(data, "symbol", None),
          side |-> "SELL",
          legs |-> <<[side |-> "SELL", type |-> "PUT", strike |-> data.price * 95],
                     [side |-> "BUY", type |-> "PUT", strike |-> data.price * 90]>>,
          limit_price |-> 150,
          risk_per_unit |-> (data.price * 95 - data.price * 90 - 150)])

\* BullPutSpreadStrategy.on_market_data
BullPutOnMarketData(ev) ==
    IF Get(ev.data, "iv_rank", 0) >= 30 /\ "price" \notin DOMAIN ev.data
    THEN RaisesError("TypeError")
    ELSE IF BullPutEvaluate(ev.data) # Nothing
         THEN Returns(<<[kind |-> "SIGNAL", data |-> BullPutEvaluate(ev.data)[1]]>>,
                      "signal")
         ELSE Returns(<<>>, "no signal")

\* IronCondorStrategy.on_market_data
IronCondorBelowTwentyOnMarketData(ev) ==
    IF Get(ev.data, "adx", 0) >= 20
    THEN Returns(<<>>, "no signal")
    ELSE Returns(<<[kind |-> "SIGNAL",
                    data |-> [strategy |-> "IRON_CONDOR",
                              symbol |-> Get(ev.data, "symbol", None),
                              side |-> "SELL",
                              risk_per_unit |-> 200,
                              limit_price |-> 300]]>>,
                 "signal")
IronCondorOnMarketData(ev) ==
    IF Get(ev.data, "adx", 25) > 20
    THEN Returns(<<>>, "no signal")
    ELSE Returns(<<[kind |-> "SIGNAL",
                    data |-> [strategy |-> "IRON_CONDOR",
                              symbol |-> Get(ev.data, "symbol", None),
                              side |-> "SELL",
                              risk_per_unit |-> 200,
                              limit_price |-> 300]]>>,
                 "signal")

\* CashSecuredPutStrategy.evaluate: the strike is 95% of the price, the
\* premium 1.5% of it rounded to the cent (whole cents for an even price in
\* dollars), the collateral strike * 100 dollars
CashSecuredPutHighIvEvaluate(data) ==
    IF Get(data, "iv_rank", 0) < 30 THEN Nothing
    ELSE Some(
         [strategy |-> "CASH_SECURED_PUT",
          symbol |-> Get(data, "symbol", None),
          side |-> "SELL",
          legs |-> <<[side |-> "SELL", type |-> "PUT", strike |-> data.price * 95]>>,
          limit_price |-> (data.price * 3) \div 2,
          risk_per_unit |-> data.price * 95 - (data.price * 3) \div 2])
CashSecuredPutEvaluate(data) ==
    IF Get(data, "iv_rank", 0) < 20 THEN Nothing
    ELSE Some(
         [strategy |-> "CASH_SECURED_PUT",
          symbol |-> Get(data, "symbol", None),
          side |-> "SELL",
          legs |-> <<[side |-> "SELL", type |-> "PUT", strike |-> data.price * 95]>>,
          limit_price |-> (data.price * 3) \div 2,
          risk_per_unit |-> data.price * 95])

\* CashSecuredPutStrategy.on_market_data
CashSecuredPutOnMarketData(ev) ==
    IF Get(ev.data, "iv_rank", 0) >= 20 /\ "price" \notin DOMAIN ev.data
    THEN RaisesError("TypeError")
    ELSE IF CashSecuredPutEvaluate(ev.data) # Nothing
         THEN Returns(<<[kind |-> "SIGNAL",
                         data |-> CashSecuredPutEvaluate(ev.data)[1]]>>, "signal")
         ELSE Returns(<<>>, "no signal")

\* BearCallSpreadStrategy.evaluate: short call at 105% of the price, long
\* call 5 dollars above, credit 1.20
BearCallEvaluate(data) ==
    IF Get(data, "iv_rank", 0) < 20 THEN Nothing
    ELSE Some(
         [strategy |-> "BEAR_CALL_SPREAD",
          symbol |-> Get(data, "symbol", None),
          side |-> "SELL",
          legs |-> <<[side |-> "SELL", type |-> "CALL", strike |-> data.price * 105],
                     [side |-> "BUY", type |-> "CALL",
                      strike |-> data.price * 105 + 500]>>,
          limit_price |-> 120,
          risk_per_unit |-> (data.price * 105 + 500) - data.price * 105 - 120])

\* BearCallSpreadStrategy.on_market_data
BearCallOnMarketData(ev) ==
    IF Get(ev.data, "iv_rank", 0) >= 20 /\ "price" \notin DOMAIN ev.data
    THEN RaisesError("TypeError")
    ELSE IF BearCallEvaluate(ev.data) # Nothing
         THEN Returns(<<[kind |-> "SIGNAL",
                         data |-> BearCallEvaluate(ev.data)[1]]>>, "signal")
         ELSE Returns(<<>>, "no signal")

----------------------------------------------------------------------------
(* Risk gate *)

MaxDrawdownLimit == 8000        \* 0.08 in units of 1e-5
MaxConsecutiveLosses == 3
DailyMaxTrades == 3

\* RiskManager._get_current_risk_state
GetCurrentRiskState(st) ==
    IF st # <<>>
    THEN [ok |-> TRUE, obj |-> Last(st)]
    ELSE NewAccountState([equity |-> 100000, balance |-> 100000,
                          risk_state |-> "NORMAL", drawdown_pct |-> 0,
                          daily_pnl |-> 0, weekly_pnl |-> 0,
                          consecutive_losses |-> 0])

\* RiskManager._calculate_position_size
SizeIgnoringHalt(signal, state) ==
    IF Get(signal, "risk_per_unit", 100) <= 0 THEN 0
    ELSE IF state.risk_state = "NORMAL"
         THEN (state.equity * 2) \div (100 * Get(signal, "risk_per_unit", 100))
         ELSE state.equity \div (100 * Get(signal, "risk_per_unit", 100))
CalculatePositionSize(signal, state) ==
    IF state.risk_state = "HALT" THEN 0
    ELSE IF Get(signal, "risk_per_unit", 100) <= 0 THEN 0
    ELSE IF state.risk_state = "NORMAL"
         THEN (state.equity * 2) \div (100 * Get(signal, "risk_per_unit", 100))
         ELSE state.equity \div (100 * Get(signal, "risk_per_unit", 100))

\* the five admission checks of on_signal
TenfoldDrawdownBreached(state) == state.drawdown_pct > 10 * MaxDrawdownLimit
HistoryDrawdownBreached(state) ==
    state.drawdown_pct > MaxDrawdownLimit \/ Len(store) > 1
DrawdownBreached(state) == state.drawdown_pct > MaxDrawdownLimit
DailyLossBreached(state) == state.daily_pnl * 100 < -(state.equity * 2)
WeeklyLossBreached(state) == state.weekly_pnl * 100 < -(state.equity * 5)
ConsecutiveLossesReached(state) == state.consecutive_losses >= MaxConsecutiveLosses
DailyTradesReached(state) ==
    (IF ~IsNone(state, "daily_trades_count") THEN state.daily_trades_count ELSE 0)
        >= DailyMaxTrades

\* "print(RISK REJECT ...); return"
RejectedAndRetried(signal, reason) ==
    Returns(<<[kind |-> "SIGNAL", data |-> signal]>>, reason)
RejectedWithTrade(signal, reason) ==
    [Returns(<<>>, reason) EXCEPT
        !.trades = Append(trades, [symbol |-> Get(signal, "symbol", None),
                                   status |-> "REJECTED"])]
Rejected(signal, reason) == Returns(<<>>, reason)

\* step 7 of on_signal: the ORDER_REQUEST it publishes
Approved(signal, quantity) ==
    Returns(<<[kind |-> "ORDER_REQUEST",
               data |-> [signal_id |-> Get(signal, "id", None),
                         symbol |-> Get(signal, "symbol", None),
                         strategy |-> Get(signal, "strategy", None),
                         side |-> Get(signal, "side", None),
                         quantity |-> quantity,
                         order_type |-> "LIMIT",
                         price |-> Get(signal, "limit_price", None),
                         legs |-> Get(signal, "legs", None)]]>>,
            "approve")

\* RiskManager.on_signal
RiskOnSignalWritingRow(ev) ==
    [Rejected(ev.data, "reject: drawdown") EXCEPT
        !.store = Append(store, Row(100000, "NORMAL", 0, 0))]
RiskOnSignal(ev) ==
    LET signal == ev.data
        cur == GetCurrentRiskState(store)
        state == cur.obj
    IN
    IF ~cur.ok THEN RaisesError("TypeError")
    ELSE IF DrawdownBreached(state) THEN Rejected(signal, "reject: drawdown")
    ELSE IF ~HasAttr(state, "daily_pnl") THEN RaisesError("AttributeError")
    ELSE IF DailyLossBreached(state) THEN Rejected(signal, "reject: daily loss")
    ELSE IF ~HasAttr(state, "weekly_pnl") THEN RaisesError("AttributeError")
    ELSE IF WeeklyLossBreached(state) THEN Rejected(signal, "reject: weekly loss")
    ELSE IF ~HasAttr(state, "consecutive_losses")
         THEN RaisesError("AttributeError")
    ELSE IF ConsecutiveLossesReached(state)
         THEN Rejected(signal, "reject: consecutive losses")
    ELSE IF DailyTradesReached(state)
         THEN Rejected(signal, "reject: daily trades")
    ELSE IF CalculatePositionSize(signal, state) <= 0
         THEN Rejected(signal, "reject: quantity")
    ELSE Approved(signal, CalculatePositionSize(signal, state))

----------------------------------------------------------------------------
(* Execution stage and ledger *)

\* ExecutionEngine(bus, mode="PAPER") (main.py:23)
ExecutionMode == "PAPER"

\* the modes the class declares (execution.py:11-15): PAPER, the default, and
\* LIVE
Modes == {"PAPER", "LIVE"}

\* ExecutionEngine.on_order_request; commission in cents; the order id is a
\* fresh uuid4, here the identity of the request event.  An order id is an
\* Optional: Nothing for None.
PaperFallbackOnOrderRequest(ev) ==
    IF ~({"symbol", "quantity", "price"} \subseteq DOMAIN ev.data)
    THEN RaisesError("KeyError")
    ELSE Returns(<<[kind |-> "ORDER_FILL",
                    data |-> [order_id |-> Some(ev.id),
                              signal_id |-> Get(ev.data, "signal_id", None),
                              symbol |-> ev.data.symbol,
                              filled_quantity |-> ev.data.quantity,
                              fill_price |-> ev.data.price,
                              commission |-> 105 * ev.data.quantity,
                              timestamp |-> None]]>>,
                 "fill")
PartialFillsOnOrderRequest(ev) ==
    IF mode # "PAPER" THEN RaisesError("NotImplementedError")
    ELSE Returns(<<[kind |-> "ORDER_FILL",
                    data |-> [order_id |-> Some(ev.id), symbol |-> ev.data.symbol,
                              filled_quantity |-> ev.data.quantity - 1,
                              fill_price |-> ev.data.price, timestamp |-> None]],
                   [kind |-> "ORDER_FILL",
                    data |-> [order_id |-> Some(ev.id), symbol |-> ev.data.symbol,
                              filled_quantity |-> 1,
                              fill_price |-> ev.data.price, timestamp |-> None]]>>,
                 "fill")
ExecutionOnOrderRequest(ev) ==
    IF mode # "PAPER" THEN RaisesError("NotImplementedError")
    ELSE IF ~({"symbol", "quantity", "price"} \subseteq DOMAIN ev.data)
         THEN RaisesError("KeyError")
    ELSE Returns(<<[kind |-> "ORDER_FILL",
                    data |-> [order_id |-> Some(ev.id),
                              signal_id |-> Get(ev.data, "signal_id", None),
                              symbol |-> ev.data.symbol,
                              filled_quantity |-> ev.data.quantity,
                              fill_price |-> ev.data.price,
                              commission |-> 105 * ev.data.quantity,
                              timestamp |-> None]]>>,
                 "fill")

\* ExecutionSimulator.handle_order_request of the backtest
\* (backtesting/engine.py:46-61): the fill price is the request's price less
\* (SELL) or plus (BUY) 1% slippage, here cut to the cent; the order id is
\* the request's "order_id", None when the request has none.
SimulatorHandleOrderRequest(ev) ==
    IF ~({"side", "symbol", "quantity"} \subseteq DOMAIN ev.data)
    THEN RaisesError("KeyError")
    ELSE Returns(<<[kind |-> "ORDER_FILL",
                    data |-> [order_id |-> IF "order_id" \in DOMAIN ev.data
                                           THEN Some(ev.data.order_id)
                                           ELSE Nothing,
                              symbol |-> ev.data.symbol,
                              fill_price |->
                                  IF ev.data.side = "BUY"
                                  THEN (Get(ev.data, "price", 10000) * 101) \div 100
                                  ELSE (Get(ev.data, "price", 10000) * 99) \div 100,
                              quantity |-> ev.data.quantity,
                              timestamp |-> "t"]]>>,
                 "fill")

\* random.uniform(-50, 150) (portfolio.py:52): the two ends of the range
PnlDraws == {-50, 150}

\* PortfolioManager.on_fill: the trade it records and the snapshot it appends
FillTrade(data) ==
    [strategy_type |-> IF data.symbol = "QQQ" THEN "IRON_CONDOR"
                       ELSE IF data.symbol = "IWM" THEN "BEAR_CALL_SPREAD"
                       ELSE "BULL_PUT_SPREAD",
     symbol |-> data.symbol, status |-> "OPEN",
     entry_credit |-> data.fill_price, max_risk |-> data.quantity * 100,
     commission |-> Get(data, "commission", 0)]

FillRowAlwaysNormal(st, pnl_change) ==
    LET new_equity == (IF st # <<>> THEN Last(st).equity ELSE 100000) + pnl_change
    IN Row(new_equity, "NORMAL", ClampedDrawdown(new_equity),
           IF st # <<>> THEN Last(st).daily_trades_count + 1 ELSE 1)
FillRow(st, pnl_change) ==
    LET new_equity == (IF st # <<>> THEN Last(st).equity ELSE 100000) + pnl_change
        dd == ClampedDrawdown(new_equity)
    IN Row(new_equity, RiskStateFor(dd), dd,
           IF st # <<>> THEN Last(st).daily_trades_count + 1 ELSE 1)

PortfolioOnFill(ev) ==
    IF ~({"symbol", "timestamp", "fill_price", "quantity"} \subseteq DOMAIN ev.data)
    THEN {RaisesError("KeyError")}
    ELSE {[Returns(<<>>, "recorded") EXCEPT
              !.trades = Append(trades, FillTrade(ev.data)),
              !.store = Append(store, FillRow(store, p))]
          : p \in PnlDraws}

----------------------------------------------------------------------------
\* What one activation of handler h on event ev does.
Bodies(h, ev) ==
    CASE h = "BullPutSpreadStrategy.on_market_data" -> {BullPutOnMarketData(ev)}
      [] h = "IronCondorStrategy.on_market_data" -> {IronCondorOnMarketData(ev)}
      [] h = "CashSecuredPutStrategy.on_market_data"
            -> {CashSecuredPutOnMarketData(ev)}
      [] h = "BearCallSpreadStrategy.on_market_data" -> {BearCallOnMarketData(ev)}
      [] h = "RiskManager.on_signal" -> {RiskOnSignal(ev)}
      [] h = "ExecutionEngine.on_order_request" -> {ExecutionOnOrderRequest(ev)}
      [] h = "PortfolioManager.on_fill" -> PortfolioOnFill(ev)
      [] h = "ExecutionSimulator.handle_order_request"
            -> {SimulatorHandleOrderRequest(ev)}
      [] OTHER -> {ProbeBody(h, ev)}

----------------------------------------------------------------------------
(* The event bus *)

Top == stack[Len(stack)]

\* memo's mark that the bus was reset and nothing was subscribed since
WasReset == Some([op |-> "reset"])

\* EventBus.subscribe (event_bus.py:46-49)
Subscribe(kind, h) ==
    /\ stack = <<>>
    /\ NumSubs(subs) < MaxSubs
    /\ subs' = [subs EXCEPT ![kind] = Append(@, h)]
    /\ log' = <<>>
    /\ nextId' = 1
    /\ memo' = Nothing
    /\ UNCHANGED <<stack, store, trades, updates, mode>>

\* _subscribers.clear() (event_bus.py:70); the event queue is never filled
ClearQueueOnly(s) == s
ClearSubscribers(s) == NoSubscribers

\* EventBus.reset (event_bus.py:69-71)
Reset ==
    /\ stack = <<>>
    /\ NumSubs(subs) > 0
    /\ subs' = ClearSubscribers(subs)
    /\ log' = <<>>
    /\ nextId' = 1
    /\ memo' = WasReset
    /\ UNCHANGED <<stack, store, trades, updates, mode>>

\* publish(event) called from outside any handler (event_bus.py:51)
Publish(kind, data) ==
    /\ stack = <<>>
    /\ LET ev == Event(1, kind, data, 0, 0, "caller") IN
        /\ stack' = CallPublish(<<>>, ev)
        /\ log' = <<[op |-> "pub", ev |-> ev]>>
    /\ nextId' = 2
    /\ UNCHANGED <<subs, store, trades, updates, mode, memo>>

\* "handler(event)" for the next handler of the loop (event_bus.py:58-60)
Invoke ==
    /\ stack # <<>>
    /\ Top.t = "pub"
    /\ Top.i <= Len(Handlers(subs, Top.ev))
    /\ Len(stack) < MaxDepth
    /\ LET f == Top
           h == Handlers(subs, f.ev)[f.i]
       IN \E b \in Bodies(h, f.ev) :
            /\ stack' = Append([stack EXCEPT ![Len(stack)].i = NextIndex(f.i)],
                               HdlFrame(f.ev, f.i, h, b))
            /\ log' = Append(log, [op |-> "call", ev |-> f.ev, i |-> f.i, h |-> h,
                                   seen |-> LatestRow(store),
                                   outcome |-> b.outcome])
            /\ store' = b.store
            /\ trades' = b.trades
    /\ UNCHANGED <<subs, nextId, updates, mode, memo>>

\* the running handler calls self.bus.publish(Event(...))
HandlerPublish ==
    /\ stack # <<>>
    /\ Top.t = "hdl"
    /\ Top.rest # <<>>
    /\ Len(stack) < MaxDepth
    /\ LET f == Top
           ev == Event(nextId, Head(f.rest).kind, Head(f.rest).data,
                       f.ev.id, f.i, "handler")
       IN /\ stack' = CallPublish([stack EXCEPT ![Len(stack)].rest = Tail(f.rest)], ev)
          /\ log' = Append(log, [op |-> "pub", ev |-> ev])
    /\ nextId' = nextId + 1
    /\ UNCHANGED <<subs, store, trades, updates, mode, memo>>

\* the running handler returns, or raises into the try of publish
\* (event_bus.py:59-67)
HandlerEnd ==
    /\ stack # <<>>
    /\ Top.t = "hdl"
    /\ Top.rest = <<>>
    /\ LET f == Top
           under == Front(stack)
           after == IF f.end = "raise"
                    THEN ExceptClause(under, f.ev, f.i, f.h, f.msg, nextId)
                    ELSE under
           ended == Append(log, [op |-> "end", ev |-> f.ev, i |-> f.i, h |-> f.h,
                                 end |-> f.end])
       IN /\ stack' = after
          /\ IF \E k \in 1..Len(after) : after[k].t = "pub" /\ after[k].ev.id = nextId
             THEN /\ log' = Append(ended,
                        [op |-> "pub",
                         ev |-> Event(nextId, "ERROR",
                                      [message |-> f.msg, origin |-> f.h],
                                      f.ev.id, f.i, "bus")])
                  /\ nextId' = nextId + 1
             ELSE /\ log' = ended
                  /\ nextId' = nextId
    /\ UNCHANGED <<subs, store, trades, updates, mode, memo>>

\* the for-loop of publish is over: publish returns (event_bus.py:58)
PublishReturn ==
    /\ stack # <<>>
    /\ Top.t = "pub"
    /\ Top.i > Len(Handlers(subs, Top.ev))
    /\ stack' = Front(stack)
    /\ log' = Append(log, [op |-> "ret", ev |-> Top.ev])
    /\ UNCHANGED <<subs, nextId, store, trades, updates, mode, memo>>

Dispatch == Invoke \/ HandlerPublish \/ HandlerEnd \/ PublishReturn

----------------------------------------------------------------------------
(* The bus on its own, with subscribers registered by a client *)

InitBus ==
    /\ subs = NoSubscribers
    /\ stack = <<>>
    /\ log = <<>>
    /\ nextId = 1
    /\ store = <<>>
    /\ trades = <<>>
    /\ updates = <<>>
    /\ mode = ExecutionMode
    /\ memo = Nothing

NextBus ==
    \/ \E k \in BusKinds, h \in Probes : Subscribe(k, h)
    \/ Reset
    \/ \E k \in BusKinds : Publish(k, [probe |-> "caller"])
    \/ Invoke
    \/ HandlerPublish
    \/ HandlerEnd
    \/ PublishReturn

SpecBus == InitBus /\ [][NextBus]_vars

----------------------------------------------------------------------------
(* The pipeline wired as in main() *)

\* main.py:14-27: the order in which the components subscribe themselves
MainSubscribers ==
    [NoSubscribers EXCEPT
        !["SIGNAL"] = <<"RiskManager.on_signal">>,
        !["ORDER_FILL"] = <<"PortfolioManager.on_fill">>,
        !["ORDER_REQUEST"] = <<"ExecutionEngine.on_order_request">>,
        !["MARKET_DATA"] = <<"BullPutSpreadStrategy.on_market_data",
                             "IronCondorStrategy.on_market_data">>]

\* what the database holds when the process starts: nothing, or the latest
\* end-of-day row of seed_data.py
InitialStores ==
    {<<>>} \cup {<<SeedRow(e, c)>> : e \in {100000, 95000, 91000}, c \in {0, 3}}
           \cup {<<SeedRow(96000, 0)>>}

\* MARKET_DATA payloads: the ticks of main.py and of BacktestDataFeed, and
\* one without a price
MarketDataInputs ==
    {[symbol |-> "SPY", price |-> 450, iv_rank |-> iv, adx |-> a]
        : iv \in {25, 35}, a \in {15, 25}}
    \cup {[symbol |-> "SPY", price |-> 450],
          [symbol |-> "SPY", iv_rank |-> 35, adx |-> 15]}

\* SIGNAL payloads given to the gate directly
SignalInputs ==
    {[strategy |-> "BULL_PUT_SPREAD", symbol |-> "SPY", side |-> "SELL",
      legs |-> <<[side |-> "SELL", type |-> "PUT", strike |-> 42750],
                 [side |-> "BUY", type |-> "PUT", strike |-> 40500]>>,
      limit_price |-> 150, risk_per_unit |-> r] : r \in {1000, 0, 300000}}
    \cup {[strategy |-> "BULL_PUT_SPREAD", symbol |-> "SPY", side |-> "SELL",
            legs |-> <<[side |-> "SELL", type |-> "PUT", strike |-> 42750],
                       [side |-> "BUY", type |-> "PUT", strike |-> 40500]>>,
            limit_price |-> 150, risk_per_unit |-> 1000, quantity |-> 7]}

\* ORDER_REQUEST payloads given to the execution stage directly
OrderRequestInputs ==
    {[symbol |-> "SPY", quantity |-> 5, price |-> 150, order_type |-> "LIMIT"]}

\* ORDER_FILL payloads given to the ledger directly: the fill the backtest's
\* ExecutionSimulator publishes (backtesting/engine.py:54-60), prices in cents
OrderFillInputs ==
    {[order_id |-> Nothing, symbol |-> "SPY", fill_price |-> 148, quantity |-> 2,
      timestamp |-> "t"]}

\* arguments of update_account_state
UpdateInputs == {[equity |-> 97000, pnl_change |-> -3000],
                 [equity |-> 100500, pnl_change |-> 500]}

\* RiskManager.update_account_state(current_equity, pnl_change) on table st
UpdateAccountStateOn(st, current_equity, pnl_change) ==
    LET cur == GetCurrentRiskState(st)
        latest == cur.obj
        dd == Hwm - current_equity
        made == NewAccountState(
                  [equity |-> current_equity, balance |-> current_equity,
                   risk_state |-> RiskStateFor(dd), drawdown_pct |-> dd,
                   daily_trades_count |-> Get(latest, "daily_trades_count", None),
                   daily_pnl |-> Get(latest, "daily_pnl", 0) + pnl_change,
                   weekly_pnl |-> Get(latest, "weekly_pnl", 0) + pnl_change,
                   consecutive_losses |->
                       IF pnl_change < 0
                       THEN Get(latest, "consecutive_losses", 0) + 1
                       ELSE IF pnl_change > 0 THEN 0
                       ELSE Get(latest, "consecutive_losses", 0)])
    IN
    IF ~cur.ok THEN [outcome |-> "TypeError", store |-> st]
    ELSE IF ~HasAttr(latest, "daily_pnl") \/ ~HasAttr(latest, "weekly_pnl")
            \/ ~HasAttr(latest, "consecutive_losses")
         THEN [outcome |-> "AttributeError", store |-> st]
    ELSE IF ~made.ok THEN [outcome |-> "TypeError", store |-> st]
    ELSE [outcome |-> "written", store |-> Append(st, made.obj)]

UpdateAccountState(current_equity, pnl_change) ==
    /\ stack = <<>>
    /\ Len(updates) < MaxUpdates
    /\ LET r == UpdateAccountStateOn(store, current_equity, pnl_change) IN
        /\ store' = r.store
        /\ updates' = Append(updates, [equity |-> current_equity,
                                       pnl_change |-> pnl_change,
                                       outcome |-> r.outcome])
    /\ log' = <<>>
    /\ nextId' = 1
    /\ UNCHANGED <<subs, stack, trades, mode, memo>>

\* "Activate Portfolio Now" of the dashboard (dashboard.py:268-277)
Activate(user_capital) ==
    /\ stack = <<>>
    /\ Len(store) < MaxRows
    /\ store' = Append(store, Row(user_capital, "NORMAL", 0, 0))
    /\ log' = <<>>
    /\ nextId' = 1
    /\ UNCHANGED <<subs, stack, trades, updates, mode, memo>>

Init ==
    /\ subs = MainSubscribers
    /\ stack = <<>>
    /\ log = <<>>
    /\ nextId = 1
    /\ store \in InitialStores
    /\ trades = <<>>
    /\ updates = <<>>
    /\ mode = ExecutionMode
    /\ memo = Nothing

Next ==
    \/ \E d \in MarketDataInputs : Publish("MARKET_DATA", d)
    \/ \E d \in SignalInputs : Publish("SIGNAL", d)
    \/ \E d \in OrderRequestInputs : Publish("ORDER_REQUEST", d)
    \/ \E d \in OrderFillInputs : Len(store) < MaxRows /\ Publish("ORDER_FILL", d)
    \/ \E u \in UpdateInputs : UpdateAccountState(u.equity, u.pnl_change)
    \/ Activate(100000)
    \/ Invoke
    \/ HandlerPublish
    \/ HandlerEnd
    \/ PublishReturn

Spec == Init /\ [][Next]_vars

----------------------------------------------------------------------------
(* The same pipeline with the execution stage constructed in another mode:
   ExecutionEngine(bus, mode="LIVE") *)

InitLive ==
    /\ subs = MainSubscribers
    /\ stack = <<>>
    /\ log = <<>>
    /\ nextId = 1
    /\ store \in InitialStores
    /\ trades = <<>>
    /\ updates = <<>>
    /\ mode \in Modes \ {ExecutionMode}
    /\ memo = Nothing

NextLive ==
    \/ \E d \in MarketDataInputs : Publish("MARKET_DATA", d)
    \/ \E d \in SignalInputs : Publish("SIGNAL", d)
    \/ \E d \in OrderRequestInputs : Publish("ORDER_REQUEST", d)
    \/ Invoke
    \/ HandlerPublish
    \/ HandlerEnd
    \/ PublishReturn

SpecLive == InitLive /\ [][NextLive]_vars

----------------------------------------------------------------------------
(* Reading the log *)

IsPrefix(a, b) == Len(a) <= Len(b) /\ SubSeq(b, 1, Len(a)) = a

HandlerOf(x) == x.h

RECURSIVE MapHandlers(_)
MapHandlers(q) == IF q = <<>> THEN <<>>
                  ELSE <<HandlerOf(Head(q))>> \o MapHandlers(Tail(q))

IsCallOf(x, id) == x.op = "call" /\ x.ev.id = id

\* the handlers invoked so far for event id, in the order of invocation
CallsOf(id) == MapHandlers(SelectSeq(log, LAMBDA x : IsCallOf(x, id)))

At(op, id) == {k \in DOMAIN log : log[k].op = op /\ log[k].ev.id = id}
AtH(op, id, i) == {k \in DOMAIN log : log[k].op = op /\ log[k].ev.id = id
                                      /\ log[k].i = i}
Returned(id) == At("ret", id) # {}
OnStack(id) == \E k \in DOMAIN stack : stack[k].t = "pub" /\ stack[k].ev.id = id
Published == {k \in DOMAIN log : log[k].op = "pub"}
Raises == {k \in DOMAIN log : log[k].op = "end" /\ log[k].end = "raise"}

\* the Error events the bus published for the failure of handler i of event id
ErrorsFor(id, i) ==
    {k \in Published : /\ log[k].ev.kind = "ERROR" /\ log[k].ev.cause = "bus"
                       /\ log[k].ev.parent = id /\ log[k].ev.pidx = i}

----------------------------------------------------------------------------
(* Claims about the event bus *)

\* C1: publish(event) invokes every handler subscribed to the event's kind
\* exactly once each, in subscription order, and no handler subscribed only
\* to another kind: while publish runs the handlers invoked for the event
\* are a prefix of the kind's subscriber list, and once it has returned they
\* are exactly that list.
C1_PublishInvokesSubscribersInOrder ==
    \A k \in Published :
        LET e == log[k].ev IN
        /\ IsPrefix(CallsOf(e.id), subs[e.kind])
        /\ Returned(e.id) => CallsOf(e.id) = subs[e.kind]

\* a finished publish of a kind with two different subscribers, while a
\* handler subscribed to another kind was left alone
C1_Witness ==
    /\ stack = <<>>
    /\ log # <<>>
    /\ Len(subs[log[1].ev.kind]) >= 2
    /\ subs[log[1].ev.kind][1] # subs[log[1].ev.kind][2]
    /\ Returned(1)
    /\ \E k2 \in Kinds : /\ subs[k2] # <<>>
                         /\ \A k \in Published : log[k].ev.kind # k2

\* C2: a handler that raises never ends the publish that called it: that
\* publish is still running or has returned normally (nothing propagated to
\* its caller), and when it has returned every handler subscribed after the
\* failing one was invoked for the same event; nested publishes included.
C2_RaiseIsContained ==
    \A k \in Raises :
        LET e == log[k].ev IN
        /\ OnStack(e.id) \/ Returned(e.id)
        /\ Returned(e.id) =>
              \A j \in (log[k].i + 1)..Len(subs[e.kind]) : AtH("call", e.id, j) # {}

\* a handler failed inside a nested publish, a later handler of the same
\* event ran, and the top-level publish has returned
C2_Witness ==
    /\ stack = <<>>
    /\ \E k \in Raises :
          /\ log[k].ev.cause = "handler"
          /\ log[k].i < Len(subs[log[k].ev.kind])
          /\ AtH("call", log[k].ev.id, log[k].i + 1) # {}
    /\ Returned(1)

\* C3: each handler activation that raises on a non-Error event has exactly
\* one Error event published for it, carrying the exception text and the
\* handler, and delivered to all Error subscribers; and every Error event the
\* bus publishes answers such a raise (none when nothing raised).
C3_OneErrorEventPerRaise ==
    /\ \A k \in Raises :
          LET e == log[k].ev
              errs == ErrorsFor(e.id, log[k].i) IN
          e.kind # "ERROR" =>
              /\ Cardinality(errs) = 1
              /\ \A x \in errs :
                    /\ x > k
                    /\ log[x].ev.data = [message |-> "boom", origin |-> log[k].h]
                    /\ Returned(log[x].ev.id) =>
                          CallsOf(log[x].ev.id) = subs["ERROR"]
    /\ \A x \in Published :
          log[x].ev.cause = "bus" =>
              \E k \in Raises : /\ k < x
                                /\ log[k].ev.id = log[x].ev.parent
                                /\ log[k].i = log[x].ev.pidx
                                /\ log[k].ev.kind # "ERROR"

\* a handler raised inside a nested publish, and its Error event reached an
\* Error subscriber
C3_Witness ==
    /\ stack = <<>>
    /\ \E k \in Raises :
          /\ log[k].ev.cause = "handler"
          /\ \E x \in ErrorsFor(log[k].ev.id, log[k].i) :
                /\ Returned(log[x].ev.id)
                /\ CallsOf(log[x].ev.id) # <<>>

\* C4: a handler that raises while handling an Error event gets no Error
\* event of its own, and the publish that delivered the Error event goes on.
C4_NoErrorEventForErrorHandler ==
    \A k \in Raises :
        LET e == log[k].ev IN
        e.kind = "ERROR" =>
            /\ ErrorsFor(e.id, log[k].i) = {}
            /\ OnStack(e.id) \/ Returned(e.id)

\* an Error subscriber raised on an Error event the bus published, and the
\* original publish has returned
C4_Witness ==
    /\ stack = <<>>
    /\ Returned(1)
    /\ \E k \in Raises : log[k].ev.kind = "ERROR" /\ log[k].ev.cause = "bus"

\* C5: dispatch is depth-first.  For an event e published from within the
\* activation of handler i of event p: publish(e) returns before handler i+1
\* of p starts, before publish(p) returns and, when the handler itself
\* published e, before that handler ends; and publish(e) returns only after
\* every handler it invoked has ended.
C5_DepthFirst ==
    \A k \in Published :
        LET e == log[k].ev IN
        /\ e.parent # 0 =>
              /\ \A q \in DOMAIN log :
                    ( \/ (log[q].op = "call" /\ log[q].ev.id = e.parent
                                             /\ log[q].i > e.pidx)
                      \/ (log[q].op = "ret" /\ log[q].ev.id = e.parent)
                      \/ (log[q].op = "end" /\ log[q].ev.id = e.parent
                                            /\ log[q].i = e.pidx
                                            /\ e.cause = "handler") )
                    => \E r \in At("ret", e.id) : k < r /\ r < q
        /\ \A r \in At("ret", e.id) :
              \A q \in DOMAIN log :
                  IsCallOf(log[q], e.id) =>
                      \E z \in AtH("end", e.id, log[q].i) : q < z /\ z < r

\* a handler published an event whose own handler ran, and the next handler
\* of the outer event ran afterwards
C5_Witness ==
    /\ stack = <<>>
    /\ \E k \in Published :
          /\ log[k].ev.cause = "handler"
          /\ CallsOf(log[k].ev.id) # <<>>
          /\ AtH("call", log[k].ev.parent, log[k].ev.pidx + 1) # {}

----------------------------------------------------------------------------
(* Claims about the risk gate *)

\* the activations of RiskManager.on_signal
RiskCalls == {k \in DOMAIN log : log[k].op = "call" /\ log[k].h = "RiskManager.on_signal"}

\* the events published from within activation k, by the handler itself ...
PublishedBy(k) ==
    {x \in Published : /\ log[x].ev.parent = log[k].ev.id
                       /\ log[x].ev.pidx = log[k].i
                       /\ log[x].ev.cause = "handler"}
\* ... or by anyone, the bus's Error event for it included
PublishedFor(k) ==
    {x \in Published : /\ log[x].ev.parent = log[k].ev.id
                       /\ log[x].ev.pidx = log[k].i}

Ended(k) == AtH("end", log[k].ev.id, log[k].i) # {}

IsRejection(k) ==
    log[k].outcome \in {"reject: drawdown", "reject: daily loss", "reject: weekly loss",
                        "reject: consecutive losses", "reject: daily trades",
                        "reject: quantity"}

\* consecutiveLosses and the PnL accumulators as section 4.4 of the
\* specification defines them, over the account updates requested so far
RECURSIVE LossStreak(_)
LossStreak(u) ==
    IF u = <<>> THEN 0
    ELSE IF Last(u).pnl_change < 0 THEN LossStreak(Front(u)) + 1
    ELSE IF Last(u).pnl_change > 0 THEN 0
    ELSE LossStreak(Front(u))

RECURSIVE SumPnl(_)
SumPnl(u) == IF u = <<>> THEN 0 ELSE SumPnl(Front(u)) + Last(u).pnl_change

C7_DrawdownRejects ==
    \A k \in RiskCalls :
        ("drawdown_pct" \in DOMAIN log[k].seen /\ log[k].seen.drawdown_pct > 8000)
            => /\ log[k].outcome = "reject: drawdown"
               /\ PublishedFor(k) = {}

\* a Signal was handled and its publish returned while the latest snapshot
\* had a drawdown of 9%
C7_Witness ==
    /\ stack = <<>>
    /\ \E k \in RiskCalls : /\ "drawdown_pct" \in DOMAIN log[k].seen
                            /\ log[k].seen.drawdown_pct = 9000
                            /\ Ended(k)
                            /\ Returned(log[k].ev.id)

\* C8: when the account has accumulated consecutiveLosses >= 3 (three losing
\* account updates in a row), a well-formed Signal is rejected and nothing is
\* published for it.
C8_ConsecutiveLossesReject ==
    LossStreak(updates) >= 3 =>
        \A k \in RiskCalls :
            log[k].ev.data.risk_per_unit > 0 =>
                /\ IsRejection(k)
                /\ PublishedFor(k) = {}

\* C9: when dailyPnl is below -2% of equity, or weeklyPnl below -5% of equity
\* (the account updates requested so far sum to such a loss), every Signal is
\* rejected and nothing is published for it.
C9_LossLimitsReject ==
    (/\ updates # <<>>
     /\ \/ SumPnl(updates) * 100 < -(Last(updates).equity * 2)
        \/ SumPnl(updates) * 100 < -(Last(updates).equity * 5))
        => \A k \in RiskCalls : IsRejection(k) /\ PublishedFor(k) = {}

\* C10: when the latest AccountState has daily_trades_count >= 3 every Signal
\* is rejected and nothing is published for it.
C10_DailyTradesReject ==
    \A k \in RiskCalls :
        ("daily_trades_count" \in DOMAIN log[k].seen
            /\ log[k].seen.daily_trades_count >= 3)
            => /\ IsRejection(k)
               /\ PublishedFor(k) = {}

----------------------------------------------------------------------------
(* Claims about sizing, execution and the ledger *)

\* the activation saw a stored row (not an empty table)
SawRow(k) == "risk_state" \in DOMAIN log[k].seen

\* the ORDER_REQUEST events activation k of the gate published
OrderRequestsOf(k) == {x \in PublishedBy(k) : log[x].ev.kind = "ORDER_REQUEST"}

\* the account has no recorded loss and no trade today: none of the daily,
\* weekly, streak or trade-count limits of section 4.4 applies
NoLimitApplies(k) ==
    /\ updates = <<>>
    /\ SawRow(k)
    /\ log[k].seen.drawdown_pct <= 8000
    /\ log[k].seen.daily_trades_count = 0

\* C11: a Signal handled on a NORMAL (DEFENSIVE) account state yields an
\* ORDER_REQUEST whose quantity is floor(equity * 2% / risk_per_unit)
\* (floor(equity * 1% / risk_per_unit)); in particular a NORMAL state with
\* equity 100000 and risk_per_unit 1000 yields an ORDER_REQUEST of quantity 2.
C11_QuantityIsRiskFraction ==
    \A k \in RiskCalls :
        /\ \A x \in OrderRequestsOf(k) :
              /\ SawRow(k)
              /\ log[k].seen.risk_state \in {"NORMAL", "DEFENSIVE"}
              /\ log[x].ev.data.quantity =
                    (log[k].seen.equity
                        * (IF log[k].seen.risk_state = "NORMAL" THEN 2 ELSE 1))
                    \div (100 * log[k].ev.data.risk_per_unit)
        /\ (/\ NoLimitApplies(k)
            /\ log[k].seen.risk_state = "NORMAL"
            /\ log[k].seen.equity = 100000
            /\ log[k].ev.data.risk_per_unit = 1000
            /\ Ended(k))
              => \E x \in OrderRequestsOf(k) : log[x].ev.data.quantity = 2

\* the activations of ExecutionEngine.on_order_request
ExecCalls ==
    {k \in DOMAIN log : log[k].op = "call" /\ log[k].h = "ExecutionEngine.on_order_request"}

\* the capital at risk on the row the activation saw buys no contract
SizesToNothing(k) ==
    /\ SawRow(k)
    /\ \/ log[k].seen.risk_state = "HALT"
       \/ log[k].ev.data.risk_per_unit <= 0
       \/ log[k].seen.equity * (IF log[k].seen.risk_state = "NORMAL" THEN 2 ELSE 1)
             < 100 * log[k].ev.data.risk_per_unit

\* C12: every ORDER_REQUEST the gate publishes, and every order the pipeline
\* hands to the execution stage, has an integer quantity >= 1; a Signal
\* whose sizing gives a quantity <= 0 (risk_per_unit <= 0, or larger than
\* the capital at risk) is rejected and no event is published for it.
C12_QuantityAtLeastOne ==
    /\ \A k \in RiskCalls :
          /\ \A x \in OrderRequestsOf(k) : log[x].ev.data.quantity \in Nat \ {0}
          /\ SizesToNothing(k) => IsRejection(k) /\ PublishedFor(k) = {}
    /\ \A e \in ExecCalls :
          log[e].ev.cause = "handler" => log[e].ev.data.quantity \in Nat \ {0}

\* C13: while the latest AccountState is in HALT no Signal is approved: the
\* sizing of the Signal on that state is 0 (it reads risk_state and never the
\* drawdown or the counters), the activation does not approve and publishes
\* no ORDER_REQUEST.
C13_HaltNeverApproves ==
    \A k \in RiskCalls :
        (SawRow(k) /\ log[k].seen.risk_state = "HALT")
            => /\ CalculatePositionSize(log[k].ev.data, log[k].seen) = 0
               /\ log[k].outcome # "approve"
               /\ OrderRequestsOf(k) = {}

\* a Signal whose risk_per_unit the account could afford was handled on a
\* HALT state and its publish has returned
C13_Witness ==
    /\ stack = <<>>
    /\ \E k \in RiskCalls : /\ SawRow(k)
                            /\ log[k].seen.risk_state = "HALT"
                            /\ log[k].ev.data.risk_per_unit > 0
                            /\ log[k].ev.data.risk_per_unit * 100 <= log[k].seen.equity
                            /\ Ended(k)
                            /\ Returned(log[k].ev.id)

\* C14: every AccountState snapshot in the table, whoever wrote it, has the
\* risk_state its own drawdown_pct determines: NORMAL up to 4%, DEFENSIVE
\* above 4% and up to 8%, HALT above 8%; in particular no snapshot has a
\* drawdown above 8% and a risk_state other than HALT.
C14_RiskStateFollowsDrawdown ==
    \A i \in DOMAIN store :
        /\ store[i].drawdown_pct <= 4000 => store[i].risk_state = "NORMAL"
        /\ (store[i].drawdown_pct > 4000 /\ store[i].drawdown_pct <= 8000)
              => store[i].risk_state = "DEFENSIVE"
        /\ store[i].drawdown_pct > 8000 => store[i].risk_state = "HALT"

\* the ledger has written, on a fill, a snapshot with a drawdown above 8%
C14_Witness ==
    /\ stack = <<>>
    /\ trades # <<>>
    /\ Len(store) = 2
    /\ store[2].drawdown_pct > 8000
    /\ store[2].risk_state = "HALT"

\* the quantity the sizing rule gives activation k
SizedQuantity(k) ==
    (log[k].seen.equity * (IF log[k].seen.risk_state = "NORMAL" THEN 2 ELSE 1))
        \div (100 * log[k].ev.data.risk_per_unit)

FillsOf(e) == {x \in PublishedBy(e) : log[x].ev.kind = "ORDER_FILL"}

\* C16: in PAPER mode an activation of on_order_request publishes exactly one
\* event, an ORDER_FILL, before it returns; the fill's filled_quantity and
\* fill_price are the request's quantity and price (5 at 1.50 gives one fill
\* of 5 at 1.50); no order has a partial or a second fill.
C16_PaperFillsOnce ==
    mode = "PAPER" =>
        /\ \A e \in ExecCalls :
              /\ log[e].outcome = "fill"
              /\ PublishedBy(e) = FillsOf(e)
              /\ Cardinality(FillsOf(e)) <= 1
              /\ \A x \in FillsOf(e) :
                    /\ log[x].ev.data.filled_quantity = log[e].ev.data.quantity
                    /\ log[x].ev.data.fill_price = log[e].ev.data.price
                    /\ log[x].ev.data.order_id = Some(log[e].ev.id)
              /\ \A y \in AtH("end", log[e].ev.id, log[e].i) :
                    /\ log[y].end = "return"
                    /\ Cardinality(FillsOf(e)) = 1
                    /\ \A x \in FillsOf(e) :
                          /\ x < y
                          /\ \E r \in At("ret", log[x].ev.id) : r < y
        /\ \A x, y \in Published :
              (/\ log[x].ev.kind = "ORDER_FILL" /\ log[y].ev.kind = "ORDER_FILL"
               /\ log[x].ev.cause = "handler" /\ log[y].ev.cause = "handler"
               /\ log[x].ev.data.order_id = log[y].ev.data.order_id) => x = y

\* an order of 5 at 1.50 was handled in PAPER mode, on_order_request has
\* returned, and one fill of 5 at 1.50 was published for it
C16_Witness ==
    /\ mode = "PAPER"
    /\ stack = <<>>
    /\ \E e \in ExecCalls :
          /\ log[e].ev.data.quantity = 5
          /\ log[e].ev.data.price = 150
          /\ Ended(e)
          /\ \E x \in FillsOf(e) : /\ log[x].ev.data.filled_quantity = 5
                                   /\ log[x].ev.data.fill_price = 150

\* C17: in a mode other than PAPER every activation of on_order_request
\* raises NotImplementedError (the bus reports it in an Error event) and
\* publishes nothing; no ORDER_FILL is published at all.
C17_LiveNotImplemented ==
    mode # "PAPER" =>
        /\ \A e \in ExecCalls :
              /\ log[e].outcome = "raise"
              /\ PublishedBy(e) = {}
              /\ \A y \in AtH("end", log[e].ev.id, log[e].i) :
                    /\ log[y].end = "raise"
                    /\ \E x \in ErrorsFor(log[e].ev.id, log[e].i) :
                          log[x].ev.data.message = "NotImplementedError"
        /\ \A x \in Published : log[x].ev.kind # "ORDER_FILL"

\* an OrderRequest was handled in LIVE mode and its publish has returned
C17_Witness ==
    /\ mode = "LIVE"
    /\ stack = <<>>
    /\ \E e \in ExecCalls : Ended(e) /\ Returned(log[e].ev.id)

\* C18: end to end.  With the pipeline wired as in main() in PAPER mode and a
\* NORMAL account state of equity 100000 with no limit reached, once the
\* publish of MarketData {SPY, price 450, iv_rank 35, adx 15} has returned at
\* least one ORDER_REQUEST and an ORDER_FILL for SPY have been published.
C18_EndToEnd ==
    \A p \in Published :
        (/\ log[p].ev.kind = "MARKET_DATA"
         /\ log[p].ev.data = [symbol |-> "SPY", price |-> 450, iv_rank |-> 35, adx |-> 15]
         /\ mode = "PAPER"
         /\ updates = <<>>
         /\ Returned(log[p].ev.id)
         /\ \E c \in AtH("call", log[p].ev.id, 1) :
               log[c].seen = Row(100000, "NORMAL", 0, 0))
            => /\ \E x \in Published : log[x].ev.kind = "ORDER_REQUEST"
               /\ \E y \in Published : /\ log[y].ev.kind = "ORDER_FILL"
                                       /\ log[y].ev.data.symbol = "SPY"

\* the activations of PortfolioManager.on_fill
LedgerCalls ==
    {k \in DOMAIN log : log[k].op = "call" /\ log[k].h = "PortfolioManager.on_fill"}

\* C19: every ORDER_FILL the execution stage publishes carries the fields the
\* ledger reads and is consumed without failure: on_fill records one OPEN
\* trade and one AccountState snapshot, and the bus publishes no Error event
\* for it.
C19_LedgerConsumesFill ==
    \A f \in LedgerCalls :
        log[f].ev.cause = "handler" =>
            /\ {"symbol", "timestamp", "fill_price", "quantity"}
                  \subseteq DOMAIN log[f].ev.data
            /\ log[f].outcome = "recorded"
            /\ ErrorsFor(log[f].ev.id, log[f].i) = {}
            /\ Ended(f) => /\ trades # <<>>
                           /\ Last(trades).status = "OPEN"
                           /\ store # <<>>
                           /\ Last(store) # log[f].seen

\* C20: a Signal handled while the account_state table is empty does not
\* fail: the gate decides it against a synthesized NORMAL state of equity
\* 100000 with zero drawdown, PnL and losses (so it approves when 2% of
\* 100000 buys at least one unit and rejects on quantity otherwise), and the
\* bus publishes no Error event for it.
C20_EmptyStoreSynthesizesState ==
    \A k \in RiskCalls :
        (~SawRow(k) /\ updates = <<>>)
            => /\ log[k].outcome # "raise"
               /\ ErrorsFor(log[k].ev.id, log[k].i) = {}
               /\ log[k].outcome =
                     IF /\ log[k].ev.data.risk_per_unit > 0
                        /\ 100 * log[k].ev.data.risk_per_unit <= 100000 * 2
                     THEN "approve" ELSE "reject: quantity"

----------------------------------------------------------------------------
(* Claims about update_account_state and the writers of the table *)

\* a column of the snapshot before an update, 0 when there is none yet
Previous(st, column) == IF st = <<>> THEN 0 ELSE Get(Last(st), column, 0)

\* C21: every call of update_account_state appends one snapshot; its
\* consecutive_losses is the previous snapshot's plus one when pnl_change < 0,
\* 0 when pnl_change > 0, and the previous value when pnl_change = 0.
C21_ConsecutiveLossesRule ==
    [][updates' # updates =>
          /\ Len(store') = Len(store) + 1
          /\ "consecutive_losses" \in DOMAIN Last(store')
          /\ Last(store').consecutive_losses =
                IF Last(updates').pnl_change < 0
                THEN Previous(store, "consecutive_losses") + 1
                ELSE IF Last(updates').pnl_change > 0 THEN 0
                ELSE Previous(store, "consecutive_losses")]_vars

\* the step is an activation of handler h
Activates(h) ==
    /\ Len(stack') = Len(stack) + 1
    /\ stack'[Len(stack')].t = "hdl"
    /\ stack'[Len(stack')].h = h

\* C22: every call of update_account_state appends one snapshot whose
\* daily_pnl and weekly_pnl are the previous snapshot's plus pnl_change and
\* whose daily_trades_count is the previous snapshot's; handling a Signal,
\* the gate's other operation, leaves the table as it is (no reset).
C22_PnlAccumulates ==
    [][/\ updates' # updates =>
              /\ Len(store') = Len(store) + 1
              /\ {"daily_pnl", "weekly_pnl"} \subseteq DOMAIN Last(store')
              /\ Last(store').daily_pnl =
                    Previous(store, "daily_pnl") + Last(updates').pnl_change
              /\ Last(store').weekly_pnl =
                    Previous(store, "weekly_pnl") + Last(updates').pnl_change
              /\ store # <<>> =>
                    Last(store').daily_trades_count = Last(store).daily_trades_count
       /\ Activates("RiskManager.on_signal") => store' = store]_vars

\* the step is the dashboard's activation: outside any publish, one NORMAL
\* row with zero drawdown appended
ActivationStep ==
    /\ stack = <<>>
    /\ stack' = <<>>
    /\ updates' = updates
    /\ Len(store') = Len(store) + 1
    /\ Last(store').risk_state = "NORMAL"
    /\ Last(store').drawdown_pct = 0

\* C23 as stated: a row is appended to account_state only by
\* update_account_state or by activation; handling a Signal, an OrderRequest
\* or an OrderFill appends none.
C23_OnlyUpdateWrites ==
    [][Len(store') > Len(store) => (updates' # updates \/ ActivationStep)]_vars

\* C23 amended: the table only grows, one row at a time, and a row is
\* appended only by update_account_state, by activation or by an activation
\* of the ledger's on_fill; handling a Signal or an OrderRequest appends none.
C23_WritersOfAccountState ==
    [][store' # store =>
          /\ Len(store') = Len(store) + 1
          /\ SubSeq(store', 1, Len(store)) = store
          /\ \/ updates' # updates
             \/ ActivationStep
             \/ Activates("PortfolioManager.on_fill")]_vars

\* the ledger has handled a fill and appended its own snapshot
C23_Witness ==
    /\ stack = <<>>
    /\ \E f \in LedgerCalls : /\ log[f].outcome = "recorded"
                              /\ Returned(log[f].ev.id)
                              /\ store # <<>>
                              /\ Last(store) # log[f].seen

\* the highest equity among the snapshots of table st (st not empty)
RECURSIVE MaxEquity(_)
MaxEquity(st) ==
    IF Len(st) = 1 THEN st[1].equity
    ELSE IF Last(st).equity > MaxEquity(Front(st)) THEN Last(st).equity
         ELSE MaxEquity(Front(st))

\* C24: every call of update_account_state appends a snapshot whose
\* drawdown_pct (in units of 1e-5) is the decline of its equity from the
\* highest equity recorded so far, as a fraction of that high-water mark: it
\* is never negative, and 0 when no earlier equity was higher.
C24_DrawdownFromHighWaterMark ==
    [][updates' # updates =>
          /\ Len(store') = Len(store) + 1
          /\ Last(store').drawdown_pct >= 0
          /\ Last(store').drawdown_pct * MaxEquity(store')
                = (MaxEquity(store') - Last(store').equity) * 100000]_vars

----------------------------------------------------------------------------
(* The gate replayed: the pipeline of main() with one of the gate's decisions
   kept, to be compared with the decisions it takes later on the same Signal
   and the same latest snapshot *)

\* what activation k of on_signal decided: its outcome and the orders and
\* Error events published for it
Decision(k) ==
    [seen |-> log[k].seen,
     data |-> log[k].ev.data,
     outcome |-> log[k].outcome,
     orders |-> {log[x].ev.data : x \in OrderRequestsOf(k)},
     errors |-> {log[x].ev.data : x \in ErrorsFor(log[k].ev.id, log[k].i)}]

\* keep a decision, once its publish has returned, with the number of
\* snapshots and trades there were
Remember ==
    /\ stack = <<>>
    /\ memo = Nothing
    /\ \E k \in RiskCalls :
          memo' = Some([decision |-> Decision(k), rows |-> Len(store),
                        trades |-> Len(trades)])
    /\ UNCHANGED <<subs, stack, log, nextId, store, trades, updates, mode>>

NextGate ==
    \/ \E d \in MarketDataInputs : Publish("MARKET_DATA", d)
    \/ \E d \in SignalInputs : Publish("SIGNAL", d)
    \/ \E d \in OrderFillInputs : Len(store) < MaxRows /\ Publish("ORDER_FILL", d)
    \/ Activate(100000)
    \/ Remember
    \/ Invoke
    \/ HandlerPublish
    \/ HandlerEnd
    \/ PublishReturn

SpecGate == Init /\ [][NextGate]_vars

----------------------------------------------------------------------------
(* Claims about the order of dispatch in the pipeline *)

\* the event that caused event id to be published (0: published from outside)
ParentOf(id) == log[CHOOSE x \in Published : log[x].ev.id = id].ev.parent

\* event id is event s or was published while s was being dispatched
RECURSIVE Descends(_, _)
Descends(id, s) ==
    IF id = s THEN TRUE
    ELSE IF id < s \/ id = 0 THEN FALSE
    ELSE Descends(ParentOf(id), s)

----------------------------------------------------------------------------
(* The pipeline under the backtest: BacktestEngine puts its ExecutionSimulator
   on the bus in the place of the ExecutionEngine *)

BacktestSubscribers ==
    [MainSubscribers EXCEPT
        !["ORDER_REQUEST"] = <<"ExecutionSimulator.handle_order_request">>]

\* the tick of BacktestDataFeed (engine.py:25-30)
BacktestTicks == {[timestamp |-> "t", symbol |-> "SPY", price |-> 450]}

\* ORDER_REQUEST payloads: the one the gate builds (manager.py:103-114), and
\* one without a side
BacktestOrderRequestInputs ==
    {[signal_id |-> None, symbol |-> "SPY", strategy |-> "BULL_PUT_SPREAD",
      side |-> sd, quantity |-> 2, order_type |-> "LIMIT", price |-> 150,
      legs |-> None] : sd \in {"SELL", "BUY"}}
    \cup OrderRequestInputs

InitBacktest ==
    /\ subs = BacktestSubscribers
    /\ stack = <<>>
    /\ log = <<>>
    /\ nextId = 1
    /\ store \in InitialStores
    /\ trades = <<>>
    /\ updates = <<>>
    /\ mode = ExecutionMode
    /\ memo = Nothing

NextBacktest ==
    \/ \E d \in BacktestTicks : Publish("MARKET_DATA", d)
    \/ \E d \in BacktestOrderRequestInputs :
          Len(store) < MaxRows /\ Publish("ORDER_REQUEST", d)
    \/ Invoke
    \/ HandlerPublish
    \/ HandlerEnd
    \/ PublishReturn

SpecBacktest == InitBacktest /\ [][NextBacktest]_vars

\* C27: every ORDER_FILL an execution stage publishes, the paper stage as
\* well as the backtest's simulator, carries an order_id that is present and
\* that no other ORDER_FILL carries.
C27_OrderIdPresentAndUnique ==
    \A x \in Published :
        (log[x].ev.kind = "ORDER_FILL" /\ log[x].ev.cause = "handler") =>
            /\ log[x].ev.data.order_id # Nothing
            /\ \A y \in Published :
                  (/\ log[y].ev.kind = "ORDER_FILL"
                   /\ log[y].ev.data.order_id = log[x].ev.data.order_id) => x = y

----------------------------------------------------------------------------
(* The four strategy evaluators on a bus of their own *)

\* each strategy subscribes itself when constructed
StrategySubscribers ==
    [NoSubscribers EXCEPT
        !["MARKET_DATA"] = <<"BullPutSpreadStrategy.on_market_data",
                             "IronCondorStrategy.on_market_data",
                             "CashSecuredPutStrategy.on_market_data",
                             "BearCallSpreadStrategy.on_market_data">>]

\* MARKET_DATA payloads around the thresholds of the evaluators, with and
\* without iv_rank and adx; the price is always there
StrategyTicks ==
    {[symbol |-> "SPY", price |-> pr, iv_rank |-> iv, adx |-> a]
        : pr \in {450, 100}, iv \in {19, 20, 29, 30}, a \in {20, 21}}
    \cup {[symbol |-> "SPY", price |-> 450, adx |-> a] : a \in {20, 21}}
    \cup {[symbol |-> "SPY", price |-> 450, iv_rank |-> iv] : iv \in {19, 20, 29, 30}}
    \cup BacktestTicks

InitStrategies ==
    /\ subs = StrategySubscribers
    /\ stack = <<>>
    /\ log = <<>>
    /\ nextId = 1
    /\ store = <<>>
    /\ trades = <<>>
    /\ updates = <<>>
    /\ mode = ExecutionMode
    /\ memo = Nothing

NextStrategies ==
    \/ \E d \in StrategyTicks : Publish("MARKET_DATA", d)
    \/ Invoke
    \/ HandlerPublish
    \/ HandlerEnd
    \/ PublishReturn

SpecStrategies == InitStrategies /\ [][NextStrategies]_vars

\* the activations of handler h and the Signals an activation published
CallsTo(h) == {k \in DOMAIN log : log[k].op = "call" /\ log[k].h = h}
SignalsOf(k) == {x \in PublishedBy(k) : log[x].ev.kind = "SIGNAL"}

----------------------------------------------------------------------------
(* The shape of a Signal *)

\* the keys a Signal payload is to carry, as the evaluators spell them
SignalKeys == {"strategy", "symbol", "side", "legs", "limit_price", "risk_per_unit"}

StrategyHandlers ==
    {"BullPutSpreadStrategy.on_market_data", "IronCondorStrategy.on_market_data",
     "CashSecuredPutStrategy.on_market_data",
     "BearCallSpreadStrategy.on_market_data"}

\* C31: an activation of an evaluator's on_market_data publishes at most one
\* Signal, two activations of the same evaluator on the same payload publish
\* the same Signals, and every Signal an evaluator publishes carries
\* strategy, symbol, side, legs, limit_price and risk_per_unit.
C31_OneCompleteSignalPerTick ==
    \A h \in StrategyHandlers :
        \A k \in CallsTo(h) :
            /\ Cardinality(SignalsOf(k)) <= 1
            /\ \A j \in CallsTo(h) :
                  (log[j].ev.data = log[k].ev.data /\ Ended(j) /\ Ended(k)) =>
                      {log[x].ev.data : x \in SignalsOf(j)}
                          = {log[x].ev.data : x \in SignalsOf(k)}
            /\ \A x \in SignalsOf(k) : SignalKeys \subseteq DOMAIN log[x].ev.data

----------------------------------------------------------------------------
(* The strategy engine of the admin panel (core/strategy_engine.py) *)

\* the members of the StrategyType enum
StrategyTypes == {"BULL_PUT_SPREAD", "BEAR_CALL_SPREAD", "IRON_CONDOR"}

\* the members the class body of StrategyEngine names in STRATEGIES, and two
\* of its APPROVED_SYMBOLS
STRATEGIES == <<"CASH_SECURED_PUT", "BEAR_CALL_SPREAD", "BULL_PUT_SPREAD", "IRON_CONDOR">>
APPROVED_SYMBOLS == {"SPY", "QQQ"}

\* "from src.core.strategy_engine import StrategyEngine" executes the class
\* body: StrategyType.<name> for a name the enum does not have raises
\* AttributeError and the class is never defined
StrategyEngineDefined == \A i \in DOMAIN STRATEGIES : STRATEGIES[i] \in StrategyTypes

\* what a call gave back: a value (None is Nothing), or an exception
Value(v) == [kind |-> "value", value |-> v]
Raised(msg) == [kind |-> "raise", value |-> msg]

\* the random draws of _analyze_market_simulation and of analyze_market: the
\* ends of each range (base_price in dollars, credit_pct in percent)
SimulationDraws ==
    [base_price : {100, 500}, dte : {30, 45}, credit_pct : {1, 3},
     prob_profit : {65, 85}, delta_proxy : {20, 40}]

\* StrategyEngine._analyze_market_simulation: max_risk and entry_credit in
\* dollars, strike in cents
AnalyzeMarketSimulation(symbol, strategy, d) ==
    LET csp == strategy = "CASH_SECURED_PUT"
        max_risk == IF csp THEN d.base_price * 100 ELSE 400
        entry_credit == IF csp THEN (d.base_price * d.credit_pct) \div 100 ELSE 100
        strike == IF csp THEN d.base_price * 95 ELSE d.base_price * 105
    IN [symbol |-> symbol, strategy |-> strategy,
        entry_credit |-> entry_credit, max_risk |-> max_risk,
        prob_profit |-> d.prob_profit, dte |-> d.dte,
        delta_proxy |-> d.delta_proxy, real_data |-> FALSE,
        legs_data |-> <<[symbol |-> symbol, side |-> "SELL", strike |-> strike,
                         option_type |-> IF csp THEN "PUT" ELSE "CALL",
                         entry_price |-> entry_credit]>>]

\* what MarketDataClient hands over: a price in dollars (0 when the fetch
\* failed), and a chain (None when the fetch failed) whose rows carry strike
\* and lastPrice in cents
EnginePrices == {0, 450}
ChainRows == {<<>>, <<[strike |-> 43000, lastPrice |-> 200],
                     [strike |-> 43400, lastPrice |-> 250],
                     [strike |-> 47000, lastPrice |-> 180]>>}
EngineChains ==
    {Nothing} \cup {Some([expiration |-> "2026-12-18", calls |-> c, puts |-> p])
                        : c \in ChainRows, p \in ChainRows}

AbsDiff(a, b) == IF a >= b THEN a - b ELSE b - a

\* the rows sort_values('diff') may put first: a row at the smallest distance
\* from the target strike
Closest(rows, target) ==
    {k \in DOMAIN rows :
        \A j \in DOMAIN rows :
            AbsDiff(rows[k].strike, target) <= AbsDiff(rows[j].strike, target)}

\* StrategyEngine.analyze_market once symbol and strategy are drawn: the
\* proposals it may return
AnalyzeMarket(symbol, strategy, current_price, chain_data, d) ==
    IF chain_data = Nothing \/ current_price = 0
    THEN {AnalyzeMarketSimulation(symbol, strategy, d)}
    ELSE IF strategy \notin {"CASH_SECURED_PUT", "BULL_PUT_SPREAD", "BEAR_CALL_SPREAD"}
    THEN {AnalyzeMarketSimulation(symbol, strategy, d)}
    ELSE LET is_call == strategy = "BEAR_CALL_SPREAD"
             target == IF is_call THEN current_price * 104 ELSE current_price * 96
             options_df == IF is_call THEN chain_data[1].calls ELSE chain_data[1].puts
         IN IF options_df = <<>>
            THEN {AnalyzeMarketSimulation(symbol, strategy, d)}
            ELSE {LET sel == options_df[k]
                      net_credit == (sel.lastPrice * 7) \div 10
                  IN [symbol |-> symbol, strategy |-> strategy,
                      entry_credit |-> IF strategy = "CASH_SECURED_PUT"
                                       THEN sel.lastPrice ELSE net_credit,
                      max_risk |-> IF strategy = "CASH_SECURED_PUT"
                                   THEN sel.strike ELSE 500 - net_credit,
                      prob_profit |-> d.prob_profit, dte |-> d.dte,
                      delta_proxy |-> 30, real_data |-> TRUE,
                      legs_data |-> <<[symbol |-> symbol, side |-> "SELL",
                                       strike |-> sel.strike,
                                       option_type |-> IF is_call THEN "CALL" ELSE "PUT",
                                       entry_price |-> sel.lastPrice]>>]
                  : k \in Closest(options_df, target)}

\* the columns of a Trade row once flushed: exit_debit and pnl default to 0,
\* exit_time to NULL
Stored(t) ==
    [k \in DOMAIN t \cup {"exit_debit", "pnl", "exit_time"} |->
        IF k \in DOMAIN t THEN t[k]
        ELSE IF k = "exit_time" THEN "NULL" ELSE 0]

\* the trades table before the panel is opened: rows on_fill recorded (OPEN)
\* and rows seed_data wrote (CLOSED, won or lost)
SeedTrade(won) ==
    Stored([strategy_type |-> "IRON_CONDOR", symbol |-> "QQQ", status |-> "CLOSED",
            entry_credit |-> 200, max_risk |-> 400, commission |-> 0,
            pnl |-> IF won THEN 200 ELSE -400,
            exit_debit |-> IF won THEN 0 ELSE 600])
EngineTrades ==
    LET rows == {Stored(FillTrade(d)) : d \in OrderFillInputs}
                    \cup {SeedTrade(w) : w \in BOOLEAN}
    IN {<<>>} \cup {<<a>> : a \in rows} \cup {<<a, b>> : a \in rows, b \in rows}

\* the exit price of close_trade as a percentage of the entry credit: the
\* profit target, and the ends of the two random ranges
CloseDraws == {20, 25, 60, 120, 180}

\* StrategyEngine.close_trade: the table and the value it returns
CloseTrade(tr, trade_id, pct) ==
    IF trade_id \in DOMAIN tr /\ tr[trade_id].status = "OPEN"
    THEN LET trade == tr[trade_id]
             exit_price == (trade.entry_credit * pct) \div 100
             closed == [trade EXCEPT
                           !.exit_time = "utcnow",
                           !.exit_debit = exit_price,
                           !.pnl = trade.entry_credit - exit_price - trade.commission,
                           !.status = "CLOSED"]
         IN [trades |-> [tr EXCEPT ![trade_id] = closed], result |-> Value(Some(closed))]
    ELSE [trades |-> tr, result |-> Value(Nothing)]

\* render_strategy_panel imports and builds the engine, and the scanner
\* button calls analyze_market (admin_panel.py:33-34, 61)
AnalyzeMarketCall ==
    /\ stack = <<>>
    /\ \E price \in EnginePrices, chain \in EngineChains :
         \E r \in IF StrategyEngineDefined
                  THEN UNION {{[symbol |-> s, strategy |-> STRATEGIES[i],
                                res |-> Value(Some(p))]
                                 : p \in AnalyzeMarket(s, STRATEGIES[i], price, chain, d)}
                              : s \in APPROVED_SYMBOLS, i \in DOMAIN STRATEGIES,
                                d \in SimulationDraws}
                  ELSE {[symbol |-> None, strategy |-> None,
                         res |-> Raised("AttributeError")]} :
            log' = <<[op |-> "analyze_market", current_price |-> price,
                      chain_data |-> chain, symbol |-> r.symbol,
                      strategy |-> r.strategy, result |-> r.res]>>
    /\ nextId' = 1
    /\ UNCHANGED <<subs, stack, store, trades, updates, mode, memo>>

\* render_strategy_panel imports and builds the engine, and a Close button
\* calls close_trade (admin_panel.py:33-34, 100)
CloseTradeCall ==
    /\ stack = <<>>
    /\ \E trade_id \in 0..3, pct \in CloseDraws :
         LET r == IF StrategyEngineDefined THEN CloseTrade(trades, trade_id, pct)
                  ELSE [trades |-> trades, result |-> Raised("AttributeError")]
         IN /\ trades' = r.trades
            /\ log' = <<[op |-> "close_trade", trade_id |-> trade_id,
                         before |-> trades, result |-> r.result]>>
    /\ nextId' = 1
    /\ UNCHANGED <<subs, stack, store, updates, mode, memo>>

\* an earlier call of the engine is kept for comparison with a later one
RememberCall ==
    /\ log # <<>>
    /\ memo # Some(log[1])
    /\ memo' = Some(log[1])
    /\ UNCHANGED <<subs, stack, log, nextId, store, trades, updates, mode>>

InitEngine ==
    /\ subs = NoSubscribers
    /\ stack = <<>>
    /\ log = <<>>
    /\ nextId = 1
    /\ store = <<>>
    /\ trades \in EngineTrades
    /\ updates = <<>>
    /\ mode = ExecutionMode
    /\ memo = Nothing

NextEngine ==
    \/ AnalyzeMarketCall
    \/ CloseTradeCall
    \/ RememberCall

SpecEngine == InitEngine /\ [][NextEngine]_vars

\* the calls of analyze_market in sight: the last one and the remembered one
AnalyzeCalls ==
    {c \in {log[k] : k \in DOMAIN log} \cup {memo[k] : k \in DOMAIN memo} :
        c.op = "analyze_market"}

\* the call took the fallback: no price, no chain, Iron Condor, or no row
FellBack(c) ==
    \/ c.current_price = 0
    \/ c.chain_data = Nothing
    \/ c.strategy = "IRON_CONDOR"
    \/ /\ c.chain_data # Nothing
       /\ c.strategy \in {"CASH_SECURED_PUT", "BULL_PUT_SPREAD"}
       /\ c.chain_data[1].puts = <<>>
    \/ /\ c.chain_data # Nothing
       /\ c.strategy = "BEAR_CALL_SPREAD"
       /\ c.chain_data[1].calls = <<>>

\* C32: every call of analyze_market returns a proposal, never None and never
\* an exception, and two calls that took the fallback for the same symbol and
\* strategy return the same proposal.
C32_AnalyzeMarketAlwaysProposes ==
    \A c \in AnalyzeCalls :
        /\ c.result.kind = "value"
        /\ c.result.value # Nothing
        /\ \A e \in AnalyzeCalls :
              (/\ FellBack(c) /\ FellBack(e)
               /\ c.symbol = e.symbol /\ c.strategy = e.strategy) =>
                  c.result = e.result

\* the call of close_trade in sight
CloseCalls == {k \in DOMAIN log : log[k].op = "close_trade"}

\* C33: close_trade on an OPEN trade returns that trade with status CLOSED
\* and changes no other trade; on a trade that is not OPEN, or on an id no
\* trade has, it returns None and leaves every trade's status, pnl,
\* exit_debit and exit_time as they were.
C33_CloseOnlyOpenTrades ==
    \A k \in CloseCalls :
        LET c == log[k]
            id == c.trade_id
        IN /\ DOMAIN trades = DOMAIN c.before
           /\ \A j \in DOMAIN trades : j # id => trades[j] = c.before[j]
           /\ IF id \in DOMAIN c.before /\ c.before[id].status = "OPEN"
              THEN /\ trades[id].status = "CLOSED"
                   /\ c.result = Value(Some(trades[id]))
              ELSE /\ trades = c.before
                   /\ c.result = Value(Nothing)

----------------------------------------------------------------------------
(* The pricing module (domain/greeks.py) *)

\* Floats are fixed-point numbers with three decimals: Unit stands for 1.0.
\* Products and quotients are rounded to the nearest thousandth.
Unit == 1000

Abs(x) == IF x >= 0 THEN x ELSE -x
Sign(x) == IF x >= 0 THEN 1 ELSE -1
Mul(a, b) == Sign(a) * Sign(b) * ((Abs(a) * Abs(b) + Unit \div 2) \div Unit)
Div(a, b) == Sign(a) * Sign(b) * ((Abs(a) * Unit + Abs(b) \div 2) \div Abs(b))

\* math.sqrt for x >= 0, by Newton's iteration on the integer x * Unit
RECURSIVE Newton(_, _)
Newton(n, g) ==
    LET next == (g + n \div g) \div 2
    IN IF next >= g THEN g ELSE Newton(n, next)

Sqrt(x) == IF x = 0 THEN 0 ELSE Newton(x * Unit, x * Unit)

\* math.log for x > 0 near 1: 2 * atanh((x - 1) / (x + 1)), three terms
Log(x) ==
    LET y == Div(x - Unit, x + Unit)
        y3 == Mul(Mul(y, y), y)
        y5 == Mul(Mul(y3, y), y)
    IN 2 * (y + y3 \div 3 + y5 \div 5)

\* math.exp: the Taylor series from term n on, for x >= 0
RECURSIVE ExpTerms(_, _, _)
ExpTerms(x, term, n) ==
    IF term = 0 \/ n > 20 THEN 0
    ELSE term + ExpTerms(x, (term * x) \div (n * Unit), n + 1)

Exp(x) == IF x >= 0 THEN ExpTerms(x, Unit, 1) ELSE Div(Unit, ExpTerms(-x, Unit, 1))

\* scipy.stats.norm.pdf
NormPdf(x) == Mul(399, Exp(-(Mul(x, x) \div 2)))

\* scipy.stats.norm.cdf: computed on |x| and reflected for the other sign;
\* the upper tail is pdf(x) * (b1 t + ... + b5 t^5) with t = 1 / (1 + p x)
UpperTail(x) ==
    LET t == Div(Unit, Unit + Mul(232, x))
        poly == Mul(t, 319 + Mul(t, -357 + Mul(t, 1781 + Mul(t, -1821 + Mul(t, 1330)))))
    IN Mul(NormPdf(x), poly)
NormCdf(x) == IF x >= 0 THEN Unit - UpperTail(x) ELSE UpperTail(-x)

\* the dataclass OptionGreeks
OptionGreeks(delta, gamma, theta, vega, rho, theoretical_price, iv) ==
    [delta |-> delta, gamma |-> gamma, theta |-> theta, vega |-> vega,
     rho |-> rho, theoretical_price |-> theoretical_price, iv |-> iv]

Max(a, b) == IF a >= b THEN a ELSE b

\* the value at expiry (greeks.py:37)
CallIntrinsicForPut(S, K, option_type) == Max(0, S - K)
Intrinsic(S, K, option_type) ==
    IF option_type = "call" THEN Max(0, S - K) ELSE Max(0, K - S)

\* the Black-Scholes price (greeks.py:46, 52); disc is exp(-r T)
PutPriceOnD2Only(S, K, disc, d1, d2, option_type) ==
    IF option_type = "call"
    THEN Mul(S, NormCdf(d1)) - Mul(Mul(K, disc), NormCdf(d2))
    ELSE Mul(Mul(K, disc), NormCdf(-d2)) - Mul(S, NormCdf(-d2))
TheoreticalPrice(S, K, disc, d1, d2, option_type) ==
    IF option_type = "call"
    THEN Mul(S, NormCdf(d1)) - Mul(Mul(K, disc), NormCdf(d2))
    ELSE Mul(Mul(K, disc), NormCdf(-d2)) - Mul(S, NormCdf(-d1))

\* OptionPricingModel.calculate_greeks: S, K, T, r and sigma in thousandths
CalculateGreeks(S, K, T, r, sigma, option_type) ==
    IF T <= 0
    THEN Value(OptionGreeks(0, 0, 0, 0, 0,
                            Intrinsic(S, K, option_type), sigma))
    ELSE IF K = 0 \/ sigma = 0 THEN Raised("ZeroDivisionError")
    ELSE IF Div(S, K) <= 0 THEN Raised("ValueError")
    ELSE
    LET sqrtT == Sqrt(T)
        d1 == Div(Log(Div(S, K)) + Mul(r + Mul(Mul(sigma, sigma), 500), T),
                  Mul(sigma, sqrtT))
        d2 == d1 - Mul(sigma, sqrtT)
        disc == Exp(-Mul(r, T))
        decay == -Div(Mul(Mul(S, NormPdf(d1)), sigma), 2 * sqrtT)
        call == option_type = "call"
        delta == IF call THEN NormCdf(d1) ELSE NormCdf(d1) - Unit
        theta == IF call
                 THEN decay - Mul(Mul(Mul(r, K), disc), NormCdf(d2))
                 ELSE decay + Mul(Mul(Mul(r, K), disc), NormCdf(-d2))
        price == TheoreticalPrice(S, K, disc, d1, d2, option_type)
        rho == IF call
               THEN Mul(Mul(Mul(K, T), disc), NormCdf(d2))
               ELSE -Mul(Mul(Mul(K, T), disc), NormCdf(-d2))
        gamma == Div(NormPdf(d1), Mul(Mul(S, sigma), sqrtT))
        vega == Mul(Mul(S, NormPdf(d1)), sqrtT)
    IN Value(OptionGreeks(delta, gamma, theta \div 365, vega \div 100, rho, price, sigma))

\* spot, strike, time to expiry, rate and volatility a caller may pass, in
\* thousandths: in, at and out of the money, expired and not
GreeksInputs ==
    [S : {90000, 100000, 110000}, K : {100000}, T : {-250, 0, 250, 1000},
     r : {50}, sigma : {0, 200}, option_type : {"call", "put"}]

\* a caller prices an option; the last two calls are kept
CalculateGreeksCall ==
    /\ stack = <<>>
    /\ \E a \in GreeksInputs :
         log' = (IF Len(log) >= 2 THEN <<>> ELSE log)
                    \o <<[op |-> "calculate_greeks", args |-> a,
                          result |-> CalculateGreeks(a.S, a.K, a.T, a.r, a.sigma,
                                                     a.option_type)]>>
    /\ nextId' = 1
    /\ UNCHANGED <<subs, stack, store, trades, updates, mode, memo>>

InitGreeks ==
    /\ subs = NoSubscribers
    /\ stack = <<>>
    /\ log = <<>>
    /\ nextId = 1
    /\ store = <<>>
    /\ trades = <<>>
    /\ updates = <<>>
    /\ mode = ExecutionMode
    /\ memo = Nothing

NextGreeks == CalculateGreeksCall

SpecGreeks == InitGreeks /\ [][NextGreeks]_vars

GreeksCalls == {k \in DOMAIN log : log[k].op = "calculate_greeks"}

\* C34: a call of calculate_greeks with T <= 0 returns theoretical_price
\* max(0, S - K) for a call and max(0, K - S) for a put, delta, gamma, theta,
\* vega and rho all 0, and iv equal to the sigma passed in.
C34_ExpiredIsIntrinsic ==
    \A k \in GreeksCalls :
        LET a == log[k].args IN
        a.T <= 0 =>
            /\ log[k].result.kind = "value"
            /\ log[k].result.value =
                  [delta |-> 0, gamma |-> 0, theta |-> 0, vega |-> 0, rho |-> 0,
                   theoretical_price |->
                       IF a.option_type = "call"
                       THEN (IF a.S > a.K THEN a.S - a.K ELSE 0)
                       ELSE (IF a.K > a.S THEN a.K - a.S ELSE 0),
                   iv |-> a.sigma]

\* an expired call in the money and an expired put in the money were priced
C34_Witness ==
    \E k, j \in GreeksCalls :
        /\ log[k].args.T < 0 /\ log[k].args.option_type = "call"
        /\ log[k].args.S > log[k].args.K
        /\ log[k].result.value.theoretical_price = 10000
        /\ log[j].args.T = 0 /\ log[j].args.option_type = "put"
        /\ log[j].args.S < log[j].args.K
        /\ log[j].result.value.theoretical_price = 10000

\* C35: for a call and a put priced at the same S, K, T > 0, r and
\* sigma > 0, call price - put price is S - K * exp(-r T) within two
\* thousandths, the rounding of the four products of the two prices.
C35_PutCallParity ==
    \A k, j \in GreeksCalls :
        LET a == log[k].args
            b == log[j].args
        IN (/\ a.option_type = "call" /\ b.option_type = "put"
            /\ a.S = b.S /\ a.K = b.K /\ a.T = b.T /\ a.r = b.r
            /\ a.sigma = b.sigma
            /\ a.T > 0 /\ a.sigma > 0) =>
               /\ log[k].result.kind = "value" /\ log[j].result.kind = "value"
               /\ Abs((log[k].result.value.theoretical_price
                          - log[j].result.value.theoretical_price)
                      - (a.S - Mul(a.K, Exp(-Mul(a.r, a.T))))) <= 2

\* a call and a put on the same inputs, a year out with a 5% rate, were
\* priced and both are worth something
C35_Witness ==
    \E k, j \in GreeksCalls :
        /\ log[k].args = [log[j].args EXCEPT !.option_type = "call"]
        /\ log[j].args.option_type = "put"
        /\ log[k].args.T = 1000 /\ log[k].args.r = 50 /\ log[k].args.sigma = 200
        /\ log[k].result.kind = "value" /\ log[j].result.kind = "value"
        /\ log[k].result.value.theoretical_price > 0
        /\ log[j].result.value.theoretical_price > 0

----------------------------------------------------------------------------
(* reset() *)

\* C36: once reset() has been called and until the next subscribe, no kind
\* has a subscriber and a publish of any kind invokes no handler.
C36_ResetClearsSubscriptions ==
    memo = WasReset =>
        /\ \A k \in Kinds : subs[k] = <<>>
        /\ \A x \in DOMAIN log : log[x].op # "call"

\* a bus with subscribers was reset, and an event published afterwards was
\* dispatched to nobody
C36_Witness ==
    /\ memo = WasReset
    /\ stack = <<>>
    /\ \E x \in Published : Returned(log[x].ev.id)

----------------------------------------------------------------------------
(* The pipeline over a day *)

\* the trades of the day as an activation saw them: 0 on an empty table
SeenTrades(k) == Get(log[k].seen, "daily_trades_count", 0)

\* C37: the approved orders of a day are bounded by DailyMaxTrades because
\* the gate approves only while the latest snapshot counts fewer than 3
\* trades and rejects from 3 on, and the ledger, handling the fill of an
\* approved order, leaves a snapshot that counts one trade more (1 on an
\* empty table).
C37_DailyTradesBounded ==
    /\ \A k \in RiskCalls :
          /\ OrderRequestsOf(k) # {} => SeenTrades(k) < DailyMaxTrades
          /\ SeenTrades(k) >= DailyMaxTrades =>
                /\ IsRejection(k)
                /\ PublishedFor(k) = {}
    /\ \A f \in LedgerCalls :
          (log[f].ev.cause = "handler" /\ Ended(f)) =>
              /\ store # <<>>
              /\ Last(store).daily_trades_count = SeenTrades(f) + 1

----------------------------------------------------------------------------
(* Error events during the dispatch of an Error event *)

\* the publishes of an Error event that are in progress
ErrorDispatches ==
    {k \in DOMAIN stack : stack[k].t = "pub" /\ stack[k].ev.kind = "ERROR"}

\* C38: no Error event is published while another Error event is being
\* dispatched, however deep the handlers' own publishes are nested.
C38_NoErrorDuringErrorDispatch == Cardinality(ErrorDispatches) <= 1

----------------------------------------------------------------------------
(* The risk counters from one snapshot to the next *)

\* the step is the ledger's OrderFill handler or an account update
FillOrUpdateStep ==
    \/ updates' # updates
    \/ /\ Len(log') = Len(log) + 1
       /\ Last(log').op = "call"
       /\ Last(log').h = "PortfolioManager.on_fill"

\* C39: a snapshot appended by on_fill or by update_account_state has
\* daily_pnl, weekly_pnl and consecutive_losses, and they are the previous
\* latest snapshot's values (0 when there was none) adjusted by the change of
\* equity the new snapshot records: the PnL sums grow by it, the streak of
\* losses grows by one on a loss and is cleared on a gain.
C39_CountersCarriedForward ==
    [][(FillOrUpdateStep /\ Len(store') = Len(store) + 1) =>
          LET new == Last(store')
              change == new.equity - (IF store = <<>> THEN 100000
                                      ELSE Last(store).equity)
          IN /\ {"daily_pnl", "weekly_pnl", "consecutive_losses"} \subseteq DOMAIN new
             /\ new.daily_pnl = Previous(store, "daily_pnl") + change
             /\ new.weekly_pnl = Previous(store, "weekly_pnl") + change
             /\ new.consecutive_losses =
                   IF change < 0 THEN Previous(store, "consecutive_losses") + 1
                   ELSE IF change > 0 THEN 0
                   ELSE Previous(store, "consecutive_losses")]_vars

----------------------------------------------------------------------------
(* What a rejection leaves behind *)

\* the step is an activation of the gate that rejects its Signal
GateRejects ==
    /\ Activates("RiskManager.on_signal")
    /\ Last(log').outcome \in
          {"reject: drawdown", "reject: daily loss", "reject: weekly loss",
           "reject: consecutive losses", "reject: daily trades",
           "reject: quantity"}

\* C40: an activation of the gate that rejects its Signal writes no
\* AccountState row and no Trade, requests no account update, leaves the
\* subscriptions as they were, and returns with no event to publish, so the
\* bus publishes nothing for it either.
C40_RejectionChangesNothing ==
    [][GateRejects =>
          /\ store' = store
          /\ trades' = trades
          /\ updates' = updates
          /\ subs' = subs
          /\ Last(stack').rest = <<>>
          /\ Last(stack').end = "return"]_vars

\* with a snapshot and a trade on record, a Signal was rejected on the
\* drawdown check and its publish has returned
C40_Witness ==
    /\ stack = <<>>
    /\ store # <<>>
    /\ trades # <<>>
    /\ \E k \in RiskCalls :
          /\ log[k].outcome = "reject: drawdown"
          /\ log[k].seen = Last(store)
          /\ Returned(log[k].ev.id)

====
